---- MODULE Spec2Model ----
(***************************************************************************)
(* A model of bundler/bundler.js (class CVBundler and main): the build     *)
(* orchestrator, the five per-kind tasks, the file-system helpers and the  *)
(* change watcher of development mode.                                     *)
(*                                                                         *)
(* Strings (paths and file texts) are sequences of one-character strings,  *)
(* so that path.basename, path.extname, String.endsWith, String.includes   *)
(* and the minification regular expressions are computed, not assumed.     *)
(***************************************************************************)
EXTENDS Integers, Sequences, FiniteSets, TLC

VARIABLES
    dev,        \* this.options.dev
    fsOrder,    \* the enumeration order fs.readdir happens to use
    badSrc,     \* the sources the external compilers (sass, tsc) reject
    fs,         \* the file system: [files: path -> content, dirs: set of paths]
    pc,         \* the orchestrator: Idle, Preparing, Running, Done, Failed
    started,    \* the names build() logged "Procesando", in order
    completed,  \* the names build() logged "procesado correctamente", in order
    buildTask,  \* the task invocation build() is awaiting
    watching,   \* startDevServer() has subscribed the change handler
    watchPaths, \* the roots handed to chokidar.watch
    handlers,   \* the invocations of the 'change' handler, in delivery order
    exitCode,   \* "none" while the process lives, else its exit status ("0", "1")
    ioFaults,   \* the transient I/O errors injected so far
    call,       \* one call of a helper taken alone: its arguments and results
    unlinked    \* the source files removed while the watcher runs

vars == <<dev, fsOrder, badSrc, fs, pc, started, completed, buildTask,
          watching, watchPaths, handlers, exitCode, ioFaults, call, unlinked>>

\* The bounds of the model: the events chokidar reports, the I/O errors, the
\* lengths of the texts the minification functions are applied to.
MaxEvents == 2
MaxIOFaults == 1
MaxLen == 5
MaxCommentLen == 8

------------------------------------------------------------------------------
\* Strings

\* The largest index of character c in s, 0 when there is none.
RECURSIVE LastIndexOf(_, _)
LastIndexOf(s, c) ==
    IF s = <<>> THEN 0
    ELSE IF s[Len(s)] = c THEN Len(s)
    ELSE LastIndexOf(SubSeq(s, 1, Len(s) - 1), c)

\* String.prototype.endsWith
endsWith(s, suffix) ==
    /\ Len(suffix) <= Len(s)
    /\ SubSeq(s, Len(s) - Len(suffix) + 1, Len(s)) = suffix

\* String.prototype.includes
includes(s, sub) ==
    \E i \in 1..(Len(s) - Len(sub) + 1) : SubSeq(s, i, i + Len(sub) - 1) = sub

\* path.join of a directory and one name
join(dir, name) == dir \o <<"/">> \o name

\* path.basename(p)
basename(p) == SubSeq(p, LastIndexOf(p, "/") + 1, Len(p))

\* path.basename(p, ext): the extension is dropped unless it is the whole name
basenameExt(p, ext) ==
    LET b == basename(p)
    IN  IF endsWith(b, ext) /\ b # ext
        THEN SubSeq(b, 1, Len(b) - Len(ext))
        ELSE b

\* path.dirname(p)
dirname(p) ==
    LET i == LastIndexOf(p, "/")
    IN  IF i = 0 THEN <<".">>
        ELSE IF i = 1 THEN <<"/">>
        ELSE SubSeq(p, 1, i - 1)

\* path.extname(p): from the last dot of the base name, "" when the base name
\* has no dot or only a leading one
extname(p) ==
    LET b == basename(p)
        i == LastIndexOf(b, ".")
    IN  IF i <= 1 THEN <<>> ELSE SubSeq(b, i, Len(b))

\* p lies under directory root (at any depth)
Under(p, root) ==
    /\ Len(p) > Len(root) + 1
    /\ SubSeq(p, 1, Len(root) + 1) = root \o <<"/">>

------------------------------------------------------------------------------
\* The configuration (constructor, this.options)

srcDir == <<"/", "s", "r", "c">>
dataDir == <<"/", "d", "a", "t", "a">>
assetsDir == <<"/", "a", "s", "s", "e", "t", "s">>
distDir == <<"/", "d", "i", "s", "t">>

ExtHtml == <<".", "h", "t", "m", "l">>
ExtScss == <<".", "s", "c", "s", "s">>
ExtCss == <<".", "c", "s", "s">>
ExtTs == <<".", "t", "s">>
ExtJs == <<".", "j", "s">>
ExtMap == <<".", "m", "a", "p">>

WordAssets == <<"a", "s", "s", "e", "t", "s">>
WordData == <<"d", "a", "t", "a">>
WordImages == <<"i", "m", "a", "g", "e", "s">>
ProfileJpg == <<"p", "r", "o", "f", "i", "l", "e", ".", "j", "p", "g">>

\* A tasks map that lists the script task before the stylesheet task
TaskOrderScriptsFirst == <<"html", "scripts", "styles", "assets", "data">>

\* this.tasks: Object.entries enumerates string keys in insertion order
TaskOrder == <<"html", "styles", "scripts", "assets", "data">>

------------------------------------------------------------------------------
\* The minification functions (regular-expression replacements, applied
\* left to right, each over the whole text and without overlapping matches)

\* \s of the regular expressions, over the characters the model's texts use
IsSpace(c) == c \in {" ", "\t", "\n", "\r"}

\* The line terminators "." does not match and "$" (flag m) stops at
IsLineEnd(c) == c \in {"\n", "\r"}

\* s without its leading run of white space
RECURSIVE DropSpace(_)
DropSpace(s) ==
    IF s # <<>> /\ IsSpace(Head(s)) THEN DropSpace(Tail(s)) ELSE s

\* s without its trailing run of white space
RECURSIVE DropSpaceEnd(_)
DropSpaceEnd(s) ==
    IF s # <<>> /\ IsSpace(s[Len(s)])
    THEN DropSpaceEnd(SubSeq(s, 1, Len(s) - 1))
    ELSE s

\* String.prototype.trim
trim(s) == DropSpaceEnd(DropSpace(s))

\* .replace(/\s\s/g, ' '): white space collapsed two by two
RECURSIVE CollapseSpacePairs(_)
CollapseSpacePairs(s) ==
    IF s = <<>> THEN <<>>
    ELSE IF Len(s) >= 2 /\ IsSpace(s[1]) /\ IsSpace(s[2])
         THEN <<" ">> \o CollapseSpacePairs(Tail(Tail(s)))
         ELSE <<Head(s)>> \o CollapseSpacePairs(Tail(s))

\* .replace(/\s+/g, '  '): each run of white space replaced by two spaces
RECURSIVE CollapseSpaceWide(_)
CollapseSpaceWide(s) ==
    IF s = <<>> THEN <<>>
    ELSE IF IsSpace(Head(s))
         THEN <<" ", " ">> \o CollapseSpaceWide(DropSpace(s))
         ELSE <<Head(s)>> \o CollapseSpaceWide(Tail(s))

\* .replace(/\s+/g, ' ')
RECURSIVE CollapseSpace(_)
CollapseSpace(s) ==
    IF s = <<>> THEN <<>>
    ELSE IF IsSpace(Head(s))
         THEN <<" ">> \o CollapseSpace(DropSpace(s))
         ELSE <<Head(s)>> \o CollapseSpace(Tail(s))

\* .replace(/a\s+b/g, 'ab') for single characters a and b
RECURSIVE JoinAcrossSpace(_, _, _)
JoinAcrossSpace(s, a, b) ==
    IF s = <<>> THEN <<>>
    ELSE LET r == DropSpace(Tail(s))
         IN  IF /\ Head(s) = a
                /\ r # Tail(s)
                /\ r # <<>>
                /\ Head(r) = b
             THEN <<a, b>> \o JoinAcrossSpace(Tail(r), a, b)
             ELSE <<Head(s)>> \o JoinAcrossSpace(Tail(s), a, b)

\* .replace(/\s+c/g, 'c')
RECURSIVE StripSpaceBefore(_, _)
StripSpaceBefore(s, c) ==
    IF s = <<>> THEN <<>>
    ELSE LET r == DropSpace(s)
         IN  IF IsSpace(Head(s)) /\ r # <<>> /\ Head(r) = c
             THEN <<c>> \o StripSpaceBefore(Tail(r), c)
             ELSE <<Head(s)>> \o StripSpaceBefore(Tail(s), c)

\* .replace(/c\s+/g, 'c') and .replace(/c\s*/g, 'c'), which replace alike
RECURSIVE StripSpaceAfter(_, _)
StripSpaceAfter(s, c) ==
    IF s = <<>> THEN <<>>
    ELSE IF Head(s) = c
         THEN <<c>> \o StripSpaceAfter(DropSpace(Tail(s)), c)
         ELSE <<Head(s)>> \o StripSpaceAfter(Tail(s), c)

\* .replace(/;\s*}/g, '}')
RECURSIVE DropLastSemicolon(_)
DropLastSemicolon(s) ==
    IF s = <<>> THEN <<>>
    ELSE LET r == DropSpace(Tail(s))
         IN  IF Head(s) = ";" /\ r # <<>> /\ Head(r) = "}"
             THEN <<"}">> \o DropLastSemicolon(Tail(r))
             ELSE <<Head(s)>> \o DropLastSemicolon(Tail(s))

\* The least index i >= from at which "*/" starts in s, 0 when there is none
RECURSIVE CommentEnd(_, _)
CommentEnd(s, from) ==
    IF from + 1 > Len(s) THEN 0
    ELSE IF s[from] = "*" /\ s[from + 1] = "/" THEN from
    ELSE CommentEnd(s, from + 1)

\* .replace(/\/\*[\s\S]*?\*\//g, '')
RECURSIVE StripBlockComments(_)
StripBlockComments(s) ==
    IF s = <<>> THEN <<>>
    ELSE LET e == CommentEnd(s, 3)
         IN  IF Len(s) >= 2 /\ s[1] = "/" /\ s[2] = "*" /\ e # 0
             THEN StripBlockComments(SubSeq(s, e + 2, Len(s)))
             ELSE <<Head(s)>> \o StripBlockComments(Tail(s))

\* s from its first line terminator on (the empty text when it has none)
RECURSIVE FromLineEnd(_)
FromLineEnd(s) ==
    IF s = <<>> \/ IsLineEnd(Head(s)) THEN s ELSE FromLineEnd(Tail(s))

\* .replace(/\/\/.*$/gm, '')
RECURSIVE StripLineComments(_)
StripLineComments(s) ==
    IF s = <<>> THEN <<>>
    ELSE IF Len(s) >= 2 /\ s[1] = "/" /\ s[2] = "/"
         THEN StripLineComments(FromLineEnd(s))
         ELSE <<Head(s)>> \o StripLineComments(Tail(s))

\* The characters of the class [{}();,:]
JsPunct == {"{", "}", "(", ")", ";", ",", ":"}

\* .replace(/\s*([{}();,:])\s*/g, '$1')
RECURSIVE TightenPunct(_)
TightenPunct(s) ==
    IF s = <<>> THEN <<>>
    ELSE LET r == DropSpace(s)
         IN  IF r # <<>> /\ Head(r) \in JsPunct
             THEN <<Head(r)>> \o TightenPunct(DropSpace(Tail(r)))
             ELSE <<Head(s)>> \o TightenPunct(Tail(s))

minifyHTML(html) ==
    trim(StripSpaceAfter(
           StripSpaceBefore(
             JoinAcrossSpace(CollapseSpace(html), ">", "<"), ">"), "<"))

minifyCSS(css) ==
    trim(StripSpaceAfter(
           StripSpaceAfter(
             StripSpaceAfter(
               StripSpaceAfter(
                 DropLastSemicolon(CollapseSpace(StripBlockComments(css))),
                 "{"), ";"), ","), ":"))

minifyJS(js) ==
    trim(TightenPunct(CollapseSpace(StripLineComments(StripBlockComments(js)))))

------------------------------------------------------------------------------
\* The source trees the model starts from

SrcIndexHtml == <<"/", "s", "r", "c", "/", "i", ".", "h", "t", "m", "l">>
SrcSubDir == <<"/", "s", "r", "c", "/", "s">>
SrcSubIndexHtml == <<"/", "s", "r", "c", "/", "s", "/", "i", ".", "h", "t", "m", "l">>
SrcMainScss == <<"/", "s", "r", "c", "/", "m", ".", "s", "c", "s", "s">>
SrcMainCss == <<"/", "s", "r", "c", "/", "m", ".", "c", "s", "s">>
SrcAppTs == <<"/", "s", "r", "c", "/", "a", ".", "t", "s">>
SrcAppJs == <<"/", "s", "r", "c", "/", "a", ".", "j", "s">>
SrcDataTxt == <<"/", "s", "r", "c", "/", "d", "a", "t", "a", ".", "t", "x", "t">>
AssetsPng == <<"/", "a", "s", "s", "e", "t", "s", "/", "p", ".", "p", "n", "g">>
DataJson == <<"/", "d", "a", "t", "a", "/", "c", "v", ".", "j", "s", "o", "n">>
AssetsEmptyDir == <<"/", "a", "s", "s", "e", "t", "s", "/", "e">>
SrcUpperTs == <<"/", "s", "r", "c", "/", "b", ".", "T", "S">>
SrcDirTs == <<"/", "s", "r", "c", "/", "d", ".", "t", "s">>
SrcDirTsFile == <<"/", "s", "r", "c", "/", "d", ".", "t", "s", "/", "c", ".", "t", "s">>
AssetsCss == <<"/", "a", "s", "s", "e", "t", "s", "/", "t", ".", "c", "s", "s">>
AssetsDataDir == <<"/", "a", "s", "s", "e", "t", "s", "/", "d", "a", "t", "a">>
AssetsDataFile == <<"/", "a", "s", "s", "e", "t", "s", "/", "d", "a", "t", "a", "/", "f">>
DataScript == <<"/", "d", "a", "t", "a", "/", "d", ".", "j", "s">>
SrcNewHtml == <<"/", "s", "r", "c", "/", "n", ".", "h", "t", "m", "l">>

TextIndexHtml == <<"<", "p", ">", " ", "<", "b", " ", ">", "\n">>
TextSubIndexHtml == <<"<", "i", ">">>
TextMainScss == <<"a", "{", "b", "}">>
TextMainCss == <<"a", " ", "{", " ", "c", ";", " ", "}">>
TextAppTs == <<"x", ":", "n">>
TextAppJs == <<"f", "(", " ", ")", " ", ";", "/", "/", "c">>
TextDataTxt == <<"t">>
TextPng == <<"P">>
TextJson == <<"{", " ", "}">>
PlaceholderSVG == <<"<", "s", "v", "g", ">">>

\* A file's content: its text and what produced it. The external compilers
\* (sass.compile, npx tsc) are uninterpreted: their output is the source text
\* tagged with the compiler and its mode.
Content(gen, text) == [gen |-> gen, text |-> text]

\* Every path of the input trees, in one enumeration order of the file system
EnumOrder ==
    << SrcAppJs, SrcAppTs, SrcDataTxt, SrcIndexHtml, SrcMainCss, SrcMainScss,
       SrcSubDir, SrcSubIndexHtml, AssetsPng, join(assetsDir, WordImages),
       join(join(assetsDir, WordImages), ProfileJpg), DataJson,
       AssetsEmptyDir, SrcUpperTs, SrcDirTs, SrcDirTsFile, AssetsCss,
       AssetsDataDir, AssetsDataFile, DataScript, SrcNewHtml >>

SrcFiles ==
    [p \in {SrcIndexHtml, SrcSubIndexHtml, SrcMainScss, SrcMainCss, SrcAppTs,
            SrcAppJs, SrcDataTxt} |->
        Content("raw",
            CASE p = SrcIndexHtml -> TextIndexHtml
              [] p = SrcSubIndexHtml -> TextSubIndexHtml
              [] p = SrcMainScss -> TextMainScss
              [] p = SrcMainCss -> TextMainCss
              [] p = SrcAppTs -> TextAppTs
              [] p = SrcAppJs -> TextAppJs
              [] OTHER -> TextDataTxt)]

\* f extended (or overwritten) at path p with content c
WithFile(files, p, c) ==
    [q \in DOMAIN files \cup {p} |-> IF q = p THEN c ELSE files[q]]

\* The file system before the build: the source root always exists, the
\* assets and data roots may be missing (as on a fresh checkout)
InitialTree(hasAssets, hasData) ==
    LET f1 == IF hasAssets
              THEN WithFile(SrcFiles, AssetsPng, Content("raw", TextPng))
              ELSE SrcFiles
        f2 == IF hasData
              THEN WithFile(f1, DataJson, Content("raw", TextJson))
              ELSE f1
    IN  [files |-> f2,
         dirs |-> {<<"/">>, srcDir, SrcSubDir}
                    \cup (IF hasAssets THEN {assetsDir, AssetsEmptyDir} ELSE {})
                    \cup (IF hasData THEN {dataDir} ELSE {})]

------------------------------------------------------------------------------
\* The file-system helpers (Métodos de utilidad)

\* pathExists(path): fs.access succeeds
pathExists(f, p) == p \in f.dirs \/ p \in DOMAIN f.files

\* d and the directories above it
RECURSIVE SelfAndAncestors(_)
SelfAndAncestors(d) ==
    IF Len(d) <= 1 THEN {<<"/">>}
    ELSE {d} \cup SelfAndAncestors(dirname(d))

\* An ensureDir that empties the directory it finds
ensureDirFresh(f, d) ==
    [files |-> [p \in {q \in DOMAIN f.files : ~Under(q, d)} |-> f.files[p]],
     dirs |-> {e \in f.dirs : ~Under(e, d)} \cup SelfAndAncestors(d)]

\* ensureDir(dirPath): fs.mkdir(dirPath, {recursive: true})
ensureDir(f, d) == [f EXCEPT !.dirs = @ \cup SelfAndAncestors(d)]

\* fs.writeFile(p, c) and the destination side of fs.copyFile
writeFile(f, p, c) == [f EXCEPT !.files = WithFile(@, p, c)]

Reverse(s) == [i \in 1..Len(s) |-> s[Len(s) + 1 - i]]

\* fs.readdir(dir, {withFileTypes: true}): the entries of dir, in the order
\* the file system enumerates them
ReadDir(f, dir) ==
    LET kids == {p \in DOMAIN f.files \cup f.dirs : dirname(p) = dir /\ p # dir}
        inOrder == SelectSeq(EnumOrder, LAMBDA p : p \in kids)
    IN  IF fsOrder = "fwd" THEN inOrder ELSE Reverse(inOrder)

\* A getFiles that calls fs.readdir without the existence test: on a missing
\* directory fs.readdir rejects (ENOENT)
getFilesThrowsUnguarded(f, dir, fault) == ~pathExists(f, dir) \/ fault

\* getFiles(dir, extension) throws: pathExists catches every error, so only
\* fs.readdir can throw, which is called for an existing dir alone
getFilesThrows(f, dir, fault) == pathExists(f, dir) /\ fault

\* A loop of getFiles that does not descend into directories
RECURSIVE ScanEntriesFlat(_, _, _)
ScanEntriesFlat(f, entries, extension) ==
    IF entries = <<>> THEN <<>>
    ELSE LET filePath == Head(entries)
             found == IF filePath \notin f.dirs
                         /\ endsWith(basename(filePath), extension)
                      THEN <<filePath>>
                      ELSE <<>>
         IN  found \o ScanEntriesFlat(f, Tail(entries), extension)

\* getFiles(dir, extension)
RECURSIVE getFiles(_, _, _)
RECURSIVE ScanEntries(_, _, _)
getFiles(f, dir, extension) ==
    IF ~pathExists(f, dir) THEN <<>>
    ELSE ScanEntries(f, ReadDir(f, dir), extension)

\* the loop of getFiles over the entries of one directory
ScanEntries(f, entries, extension) ==
    IF entries = <<>> THEN <<>>
    ELSE LET filePath == Head(entries)
             found == IF filePath \in f.dirs
                      THEN getFiles(f, filePath, extension)
                      ELSE IF endsWith(basename(filePath), extension)
                           THEN <<filePath>>
                           ELSE <<>>
         IN  found \o ScanEntries(f, Tail(entries), extension)

\* One pending file operation of a task
Op(op, src, dst) == [op |-> op, src |-> src, dst |-> dst]

\* A loop of copyDirectory that copies the files and skips the directories
RECURSIVE CopyEntriesFlat(_, _, _)
CopyEntriesFlat(f, entries, dest) ==
    IF entries = <<>> THEN <<>>
    ELSE LET srcPath == Head(entries)
             destPath == join(dest, basename(srcPath))
             ops == IF srcPath \in f.dirs
                    THEN <<>>
                    ELSE <<Op("copy", srcPath, destPath)>>
         IN  ops \o CopyEntriesFlat(f, Tail(entries), dest)

\* copyDirectory(src, dest), as the operations it performs in order
RECURSIVE copyDirectory(_, _, _)
RECURSIVE CopyEntries(_, _, _)
copyDirectory(f, src, dest) ==
    <<Op("mkdir", src, dest)>> \o CopyEntries(f, ReadDir(f, src), dest)

\* the loop of copyDirectory over the entries of one directory
CopyEntries(f, entries, dest) ==
    IF entries = <<>> THEN <<>>
    ELSE LET srcPath == Head(entries)
             destPath == join(dest, basename(srcPath))
             ops == IF srcPath \in f.dirs
                    THEN copyDirectory(f, srcPath, destPath)
                    ELSE <<Op("copy", srcPath, destPath)>>
         IN  ops \o CopyEntries(f, Tail(entries), dest)

------------------------------------------------------------------------------
\* The five tasks. A task first scans (its awaits up to the file lists or the
\* existence test), which yields the file operations it will perform, and
\* then performs them one await at a time.

Scanned(f, todo) == [fs |-> f, todo |-> todo]

\* A markup output named as the stylesheet branch names its outputs
HtmlOutputPathAsCss(file) == join(distDir, basenameExt(file, ExtHtml) \o ExtCss)

\* A markup output placed as the source is placed under the source root
HtmlOutputPathRelative(file) ==
    distDir \o SubSeq(file, Len(srcDir) + 1, Len(file))

\* processHTML: the files found and where each goes
HtmlOutputPath(file) == join(distDir, basename(file))

processHTML(f) ==
    LET htmlFiles == getFiles(f, srcDir, ExtHtml)
    IN  Scanned(f, [i \in 1..Len(htmlFiles) |->
                      Op("html", htmlFiles[i], HtmlOutputPath(htmlFiles[i]))])

\* An output of a preprocessed stylesheet that keeps the source's extension
ScssOutputPathAsIs(file) == join(distDir, basename(file))

\* processStyles: the preprocessed stylesheets first, then the plain ones
ScssOutputPath(file) == join(distDir, basenameExt(file, ExtScss) \o ExtCss)

CssOutputPath(file) == join(distDir, basename(file))

\* A processStyles that takes the plain stylesheets first
processStylesPlainFirst(f) ==
    LET scssFiles == getFiles(f, srcDir, ExtScss)
        cssFiles == getFiles(f, srcDir, ExtCss)
    IN  Scanned(f,
            [i \in 1..Len(cssFiles) |->
                Op("css", cssFiles[i], CssOutputPath(cssFiles[i]))]
            \o [i \in 1..Len(scssFiles) |->
                Op("scss", scssFiles[i], ScssOutputPath(scssFiles[i]))])

processStyles(f) ==
    LET scssFiles == getFiles(f, srcDir, ExtScss)
        cssFiles == getFiles(f, srcDir, ExtCss)
    IN  Scanned(f,
            [i \in 1..Len(scssFiles) |->
                Op("scss", scssFiles[i], ScssOutputPath(scssFiles[i]))]
            \o [i \in 1..Len(cssFiles) |->
                Op("css", cssFiles[i], CssOutputPath(cssFiles[i]))])

\* processScripts: the typed scripts first, then the plain ones
TsOutputPath(file) == join(distDir, basenameExt(file, ExtTs) \o ExtJs)

JsOutputPath(file) == join(distDir, basename(file))

processScripts(f) ==
    LET tsFiles == getFiles(f, srcDir, ExtTs)
        jsFiles == getFiles(f, srcDir, ExtJs)
    IN  Scanned(f,
            [i \in 1..Len(tsFiles) |->
                Op("ts", tsFiles[i], TsOutputPath(tsFiles[i]))]
            \o [i \in 1..Len(jsFiles) |->
                Op("js", jsFiles[i], JsOutputPath(jsFiles[i]))])

\* A processAssets that mirrors the assets root without creating it
processAssetsNoSynthesis(f) ==
    LET assetsOutputDir == join(distDir, WordAssets)
        f1 == ensureDir(f, assetsOutputDir)
    IN  Scanned(f1, copyDirectory(f1, assetsDir, assetsOutputDir))

\* A processAssets that writes the placeholder image whether or not the
\* assets root exists
processAssetsAlwaysPlaceholder(f) ==
    LET images == join(assetsDir, WordImages)
        f1 == writeFile(ensureDir(ensureDir(f, assetsDir), images),
                        join(images, ProfileJpg),
                        Content("raw", PlaceholderSVG))
        assetsOutputDir == join(distDir, WordAssets)
        f2 == ensureDir(f1, assetsOutputDir)
    IN  Scanned(f2, copyDirectory(f2, assetsDir, assetsOutputDir))

\* processAssets: the assets root and a placeholder image are created when the
\* root is missing, then the tree is mirrored
processAssets(f) ==
    LET images == join(assetsDir, WordImages)
        f1 == IF ~pathExists(f, assetsDir)
              THEN writeFile(ensureDir(ensureDir(f, assetsDir), images),
                             join(images, ProfileJpg),
                             Content("raw", PlaceholderSVG))
              ELSE f
        assetsOutputDir == join(distDir, WordAssets)
        f2 == ensureDir(f1, assetsOutputDir)
    IN  Scanned(f2, copyDirectory(f2, assetsDir, assetsOutputDir))

\* A processData that creates the data root when it is missing
processDataCreatesRoot(f) ==
    LET dataOutputDir == join(distDir, WordData)
        f1 == ensureDir(ensureDir(f, dataDir), dataOutputDir)
    IN  Scanned(f1, copyDirectory(f1, dataDir, dataOutputDir))

\* A processData that mirrors the data root without testing that it exists
processDataUnguarded(f) ==
    LET dataOutputDir == join(distDir, WordData)
        f1 == ensureDir(f, dataOutputDir)
    IN  Scanned(f1, copyDirectory(f1, dataDir, dataOutputDir))

\* processData: nothing is done when the data root is missing
processData(f) ==
    IF ~pathExists(f, dataDir) THEN Scanned(f, <<>>)
    ELSE LET dataOutputDir == join(distDir, WordData)
             f1 == ensureDir(f, dataOutputDir)
         IN  Scanned(f1, copyDirectory(f1, dataDir, dataOutputDir))

\* this.tasks[name]()
RunTask(name, f) ==
    CASE name = "html" -> processHTML(f)
      [] name = "styles" -> processStyles(f)
      [] name = "scripts" -> processScripts(f)
      [] name = "assets" -> processAssets(f)
      [] name = "data" -> processData(f)

\* sass.compile(file, {style, sourceMap}).css
SassCss(f, file) ==
    Content(IF dev THEN "sass-expanded" ELSE "sass-compressed", f.files[file].text)

\* An operation whose compiler error is caught and not thrown again
OpThrowsCompilerSilent(f, o) ==
    CASE o.op = "mkdir" -> FALSE
      [] OTHER ->
            \/ o.src \notin DOMAIN f.files
            \/ dirname(o.dst) \notin f.dirs

\* One file operation throws: a file to read is missing, the directory to
\* write into is missing, or the compiler rejects the source
OpThrows(f, o) ==
    CASE o.op = "mkdir" -> FALSE
      [] o.op \in {"scss", "ts"} ->
            \/ o.src \in badSrc
            \/ o.src \notin DOMAIN f.files
            \/ dirname(o.dst) \notin f.dirs
      [] OTHER ->
            \/ o.src \notin DOMAIN f.files
            \/ dirname(o.dst) \notin f.dirs

\* A processedContent that is minified whatever the mode
processedContentMinified(op, content) ==
    CASE op = "html" -> minifyHTML(content)
      [] op = "css" -> minifyCSS(content)
      [] op = "js" -> minifyJS(content)

\* processedContent: the content read, minified unless this.options.dev
processedContent(op, content) ==
    IF dev THEN content
    ELSE CASE op = "html" -> minifyHTML(content)
           [] op = "css" -> minifyCSS(content)
           [] op = "js" -> minifyJS(content)

\* The file system after one file operation: the body of a task's loop
ExecOp(f, o) ==
    CASE o.op = "html" ->
            writeFile(f, o.dst,
                Content("raw", processedContent("html", f.files[o.src].text)))
      [] o.op = "scss" ->
            LET f1 == writeFile(f, o.dst, SassCss(f, o.src))
            IN  IF dev
                THEN writeFile(f1, o.dst \o ExtMap,
                               Content("sass-map", f.files[o.src].text))
                ELSE f1
      [] o.op = "css" ->
            writeFile(f, o.dst,
                Content("raw", processedContent("css", f.files[o.src].text)))
      [] o.op = "ts" ->
            writeFile(f, o.dst, Content("tsc", f.files[o.src].text))
      [] o.op = "js" ->
            writeFile(f, o.dst,
                Content("raw", processedContent("js", f.files[o.src].text)))
      [] o.op = "mkdir" -> ensureDir(f, o.dst)
      [] o.op = "copy" -> writeFile(f, o.dst, f.files[o.src])

\* One invocation of a task: by build() (path empty) or by the change handler
Proc(kind, path) ==
    [kind |-> kind, path |-> path, status |-> "running", stage |-> "scan",
     todo |-> <<>>]

NoProc ==
    [kind |-> "none", path |-> <<>>, status |-> "idle", stage |-> "scan",
     todo |-> <<>>]

\* How a handler that has ended is kept: by what became of it alone
Ended(status) ==
    [kind |-> "none", path |-> <<>>, status |-> status, stage |-> "ops",
     todo |-> <<>>]

\* The invocation with todo left to do: its promise resolves with the last one
Continue(p, todo) ==
    [p EXCEPT !.stage = "ops", !.todo = todo,
              !.status = IF todo = <<>> THEN "resolved" ELSE "running"]

Outcome(p, f, fault) == [proc |-> p, fs |-> f, fault |-> fault]

\* The awaits of a task up to its loop can throw: fs.readdir in getFiles and
\* in copyDirectory, ensureDir and fs.writeFile in processAssets; pathExists
\* cannot, so a task that returns on a missing directory throws nothing
ScanCanThrow(kind, f) ==
    CASE kind \in {"html", "styles", "scripts"} -> getFilesThrows(f, srcDir, TRUE)
      [] kind = "assets" -> TRUE
      [] kind = "data" -> pathExists(f, dataDir)

\* A handler whose task processes the changed file alone
OutcomesChangedOnly(p, f) ==
    LET thrown == [p EXCEPT !.status = "rejected"]
        normal ==
            IF p.stage = "scan"
            THEN LET r == RunTask(p.kind, f)
                     todo == SelectSeq(r.todo,
                                 LAMBDA o : p.path = <<>> \/ o.src = p.path)
                 IN  Outcome(Continue(p, todo), r.fs, 0)
            ELSE IF OpThrows(f, Head(p.todo))
                 THEN Outcome(thrown, f, 0)
                 ELSE Outcome(Continue(p, Tail(p.todo)), ExecOp(f, Head(p.todo)), 0)
        canFault ==
            /\ ioFaults < MaxIOFaults
            /\ p.stage = "scan" => ScanCanThrow(p.kind, f)
    IN  {normal} \cup (IF canFault THEN {Outcome(thrown, f, 1)} ELSE {})

\* What the next await of a running invocation can lead to
Outcomes(p, f) ==
    LET thrown == [p EXCEPT !.status = "rejected"]
        normal ==
            IF p.stage = "scan"
            THEN LET r == RunTask(p.kind, f)
                 IN  Outcome(Continue(p, r.todo), r.fs, 0)
            ELSE IF OpThrows(f, Head(p.todo))
                 THEN Outcome(thrown, f, 0)
                 ELSE Outcome(Continue(p, Tail(p.todo)), ExecOp(f, Head(p.todo)), 0)
        canFault ==
            /\ ioFaults < MaxIOFaults
            /\ p.stage = "scan" => ScanCanThrow(p.kind, f)
    IN  {normal} \cup (IF canFault THEN {Outcome(thrown, f, 1)} ELSE {})

\* No helper is called alone: the bundler runs as a whole
NoCall == [fn |-> "none", arg |-> <<>>, state |-> "none", value |-> <<>>]

------------------------------------------------------------------------------
\* The orchestrator: main() and build()

Init ==
    /\ dev \in BOOLEAN
    /\ fsOrder \in {"fwd", "rev"}
    /\ badSrc \in {{}, {SrcAppTs}, {SrcMainScss}}
    /\ fs \in {InitialTree(populated, populated) : populated \in BOOLEAN}
    /\ pc = "Idle"
    /\ started = <<>>
    /\ completed = <<>>
    /\ buildTask = NoProc
    /\ watching = FALSE
    /\ watchPaths = {}
    /\ handlers = <<>>
    /\ exitCode = "none"
    /\ ioFaults = 0
    /\ call = NoCall
    /\ unlinked = {}

\* main(): the bundler is constructed and build() is entered
BuildBegin ==
    /\ pc = "Idle"
    /\ exitCode = "none"
    /\ pc' = "Preparing"
    /\ UNCHANGED <<call, unlinked, dev, fsOrder, badSrc, fs, started, completed, buildTask,
                   watching, watchPaths, handlers, exitCode, ioFaults>>

\* The loop of build() enters its iteration for task number n: the name is
\* logged and the task is called
StartTask(n) ==
    /\ started' = Append(started, TaskOrder[n])
    /\ buildTask' = Proc(TaskOrder[n], <<>>)

\* A catch block that logs the error and leaves out process.exit(1): build()
\* returns as after a complete build and the process ends with status 0
CatchBuildErrorNoExit ==
    /\ pc' = "Done"
    /\ exitCode' = "0"
    /\ UNCHANGED <<fs, started, completed, buildTask, watching, watchPaths>>

\* A catch block that empties the output root before it exits
CatchBuildErrorCleanup ==
    /\ pc' = "Failed"
    /\ exitCode' = "1"
    /\ fs' = [files |-> [p \in {q \in DOMAIN fs.files : ~Under(q, distDir)} |->
                            fs.files[p]],
              dirs |-> {d \in fs.dirs : ~Under(d, distDir)}]
    /\ UNCHANGED <<started, completed, buildTask, watching, watchPaths>>

\* A catch block that tries the failed operation of the task again
CatchBuildErrorRetry ==
    /\ buildTask' = [buildTask EXCEPT !.status = "running"]
    /\ UNCHANGED <<fs, started, completed, watching, watchPaths, pc, exitCode>>

\* The catch block of build(): the error is logged and process.exit(1)
CatchBuildError ==
    /\ pc' = "Failed"
    /\ exitCode' = "1"
    /\ UNCHANGED <<fs, started, completed, buildTask, watching, watchPaths>>

\* A build() that starts its loop without creating the output directories
BuildPreparedNoDirs ==
    /\ pc = "Preparing"
    /\ pc' = "Running"
    /\ StartTask(1)
    /\ UNCHANGED <<call, unlinked, dev, fsOrder, badSrc, fs, completed, watching,
                   watchPaths, handlers, exitCode, ioFaults>>

\* The three output directories exist; the loop starts the first task
BuildPrepared ==
    /\ pc = "Preparing"
    /\ fs' = ensureDir(ensureDir(ensureDir(fs, distDir),
                                 join(distDir, WordData)),
                       join(distDir, WordAssets))
    /\ pc' = "Running"
    /\ StartTask(1)
    /\ UNCHANGED <<call, unlinked, dev, fsOrder, badSrc, completed, watching, watchPaths,
                   handlers, exitCode, ioFaults>>

\* One of the three ensureDir calls throws (not EEXIST)
BuildPrepareFails ==
    /\ pc = "Preparing"
    /\ ioFaults < MaxIOFaults
    /\ ioFaults' = ioFaults + 1
    /\ CatchBuildError
    /\ UNCHANGED <<call, unlinked, dev, fsOrder, badSrc, handlers>>

\* The task build() awaits gets its next result
BuildTaskStep ==
    /\ pc = "Running"
    /\ buildTask.status = "running"
    /\ \E o \in Outcomes(buildTask, fs) :
          /\ buildTask' = o.proc
          /\ fs' = o.fs
          /\ ioFaults' = ioFaults + o.fault
    /\ UNCHANGED <<call, unlinked, dev, fsOrder, badSrc, pc, started, completed, watching,
                   watchPaths, handlers, exitCode>>

\* await task() returns and the loop goes on with the next task
BuildTaskDone ==
    /\ pc = "Running"
    /\ buildTask.status = "resolved"
    /\ Len(completed) + 1 < Len(TaskOrder)
    /\ completed' = Append(completed, buildTask.kind)
    /\ StartTask(Len(completed) + 2)
    /\ UNCHANGED <<call, unlinked, dev, fsOrder, badSrc, fs, pc, watching, watchPaths,
                   handlers, exitCode, ioFaults>>

\* The filter of startDevServer keeps p when its callback's value is truthy:
\* the callback returns the promise fs.access(p).then(..).catch(..)
FilterKeeps(f, p) == TRUE

\* startDevServer(): the roots are handed to chokidar.watch and the change
\* handler is subscribed
startDevServer ==
    /\ watchPaths' = {p \in {srcDir, dataDir, assetsDir} : FilterKeeps(fs, p)}
    /\ watching' = TRUE
    /\ UNCHANGED exitCode

\* A build() that starts the watcher whatever the mode
AfterLastTaskAlwaysWatch == startDevServer

\* After the loop: in development mode the watcher is started; otherwise
\* build() and main() return and the process ends with status 0
AfterLastTask ==
    IF dev
    THEN startDevServer
    ELSE exitCode' = "0" /\ UNCHANGED <<watching, watchPaths>>

\* await task() returns for the last task: the build is complete; in
\* development mode the watcher is started, otherwise the process ends
BuildFinish ==
    /\ pc = "Running"
    /\ buildTask.status = "resolved"
    /\ Len(completed) + 1 = Len(TaskOrder)
    /\ completed' = Append(completed, buildTask.kind)
    /\ buildTask' = NoProc
    /\ pc' = "Done"
    /\ AfterLastTask
    /\ UNCHANGED <<call, unlinked, dev, fsOrder, badSrc, fs, started, handlers, ioFaults>>

\* await task() throws
BuildCatch ==
    /\ pc = "Running"
    /\ buildTask.status = "rejected"
    /\ CatchBuildError
    /\ UNCHANGED <<call, unlinked, dev, fsOrder, badSrc, handlers, ioFaults>>

------------------------------------------------------------------------------
\* The change watcher (startDevServer)

\* A chain whose stylesheet branch tests the preprocessed extension only
ClassifyNoCss(filePath) ==
    LET ext == extname(filePath)
        dir == dirname(filePath)
    IN  IF ext = ExtHtml THEN "html"
        ELSE IF ext = ExtScss THEN "styles"
        ELSE IF ext = ExtTs \/ ext = ExtJs THEN "scripts"
        ELSE IF includes(dir, WordAssets) THEN "assets"
        ELSE IF includes(dir, WordData) THEN "data"
        ELSE "none"

\* A chain that tests the location before the extension
ClassifyLocationFirst(filePath) ==
    LET ext == extname(filePath)
        dir == dirname(filePath)
    IN  IF includes(dir, WordAssets) THEN "assets"
        ELSE IF includes(dir, WordData) THEN "data"
        ELSE IF ext = ExtHtml THEN "html"
        ELSE IF ext = ExtScss \/ ext = ExtCss THEN "styles"
        ELSE IF ext = ExtTs \/ ext = ExtJs THEN "scripts"
        ELSE "none"

\* The if/else-if chain of the change handler: the task a path is routed to
Classify(filePath) ==
    LET ext == extname(filePath)
        dir == dirname(filePath)
    IN  IF ext = ExtHtml THEN "html"
        ELSE IF ext = ExtScss \/ ext = ExtCss THEN "styles"
        ELSE IF ext = ExtTs \/ ext = ExtJs THEN "scripts"
        ELSE IF includes(dir, WordAssets) THEN "assets"
        ELSE IF includes(dir, WordData) THEN "data"
        ELSE "none"

\* The handler invocation a change event starts: up to the first await of the
\* task it calls, or to its end when no branch matches
NewHandler(filePath) ==
    LET kind == Classify(filePath)
    IN  IF kind = "none"
        THEN [Ended("done") EXCEPT !.path = filePath]
        ELSE Proc(kind, filePath)

\* The content of a file after an edit of it
Edited(c) == [c EXCEPT !.text = @ \o <<"!">>]

\* A file under a watched root is modified and chokidar delivers 'change'
\* for it
WatchChange(filePath) ==
    /\ watching
    /\ exitCode = "none"
    /\ Len(handlers) + Cardinality(unlinked) < MaxEvents
    /\ filePath \in DOMAIN fs.files
    /\ \E root \in watchPaths : Under(filePath, root)
    /\ fs' = writeFile(fs, filePath, Edited(fs.files[filePath]))
    /\ handlers' = Append(handlers, NewHandler(filePath))
    /\ UNCHANGED <<call, unlinked, dev, fsOrder, badSrc, pc, started, completed, buildTask,
                   watching, watchPaths, exitCode, ioFaults>>

\* The rest of the handler once its await has settled, run with no other
\* callback in between: the update is logged, or the catch block logs the
\* error message; either way the handler ends there
Settle(p) ==
    CASE p.status = "resolved" -> Ended("done")
      [] p.status = "rejected" -> Ended("caught")
      [] OTHER -> p

\* A handler whose catch block ends the process as the one of build() does
CatchHandlerErrorExit(p) ==
    /\ exitCode' = "1"
    /\ UNCHANGED <<pc, watching, watchPaths>>

\* What the catch block of the change handler does to the process: nothing
CatchHandlerError(p) ==
    UNCHANGED <<pc, watching, watchPaths, exitCode>>

\* The task a handler awaits gets its next result
HandlerStep(i) ==
    /\ exitCode = "none"
    /\ handlers[i].status = "running"
    /\ \E o \in Outcomes(handlers[i], fs) :
          /\ handlers' = [handlers EXCEPT ![i] = Settle(o.proc)]
          /\ fs' = o.fs
          /\ ioFaults' = ioFaults + o.fault
          /\ IF o.proc.status = "rejected"
             THEN CatchHandlerError(o.proc)
             ELSE UNCHANGED <<pc, watching, watchPaths, exitCode>>
    /\ UNCHANGED <<call, unlinked, dev, fsOrder, badSrc, started, completed, buildTask>>

Next ==
    \/ BuildBegin
    \/ BuildPrepared
    \/ BuildPrepareFails
    \/ BuildTaskStep
    \/ BuildTaskDone
    \/ BuildFinish
    \/ BuildCatch
    \/ \E filePath \in DOMAIN fs.files : WatchChange(filePath)
    \/ \E i \in DOMAIN handlers : HandlerStep(i)

Spec == Init /\ [][Next]_vars

------------------------------------------------------------------------------
\* The one-shot build: main() without --dev. Every await of build() and of
\* its tasks settles, so a continuation that is ready to run is run

InitOneShot == Init /\ ~dev

NextBuild ==
    \/ BuildBegin
    \/ BuildPrepared
    \/ BuildPrepareFails
    \/ BuildTaskStep
    \/ BuildTaskDone
    \/ BuildFinish
    \/ BuildCatch

\* The awaits of build() itself: a continuation that stays ready is run
BuildControl ==
    \/ BuildBegin
    \/ BuildPrepared
    \/ BuildTaskDone
    \/ BuildFinish
    \/ BuildCatch

\* The awaited task has an await pending: BuildTaskStep is then enabled, as
\* Outcomes is never empty and each outcome changes buildTask
TaskPending == pc = "Running" /\ buildTask.status = "running"

\* Weak fairness of BuildTaskStep, its enabling condition written out
TaskAwaitsSettle == []<>(~TaskPending) \/ []<><<BuildTaskStep>>_vars

SpecOneShot ==
    InitOneShot /\ [][NextBuild]_vars /\ WF_vars(BuildControl) /\ TaskAwaitsSettle

------------------------------------------------------------------------------
\* The bundler on two more layouts of the input trees, with source files
\* removed while the watcher runs

\* One markup file, one preprocessed stylesheet, one typed script, one asset
\* and one data file
OneOfEachTree ==
    [files |-> [p \in {SrcIndexHtml, SrcMainScss, SrcAppTs, AssetsPng, DataJson} |->
                  Content("raw",
                      CASE p = SrcIndexHtml -> TextIndexHtml
                        [] p = SrcMainScss -> TextMainScss
                        [] p = SrcAppTs -> TextAppTs
                        [] p = AssetsPng -> TextPng
                        [] OTHER -> TextJson)],
     dirs |-> {<<"/">>, srcDir, assetsDir, dataDir}]

\* Two typed scripts and a plain one under the source root; a stylesheet
\* under the assets root and a file in assets/data; a script under the data
\* root
MixedTree ==
    [files |-> [p \in {SrcAppTs, SrcDirTsFile, SrcAppJs, AssetsCss,
                       AssetsDataFile, DataScript} |->
                  Content("raw",
                      CASE p \in {SrcAppTs, SrcDirTsFile} -> TextAppTs
                        [] p \in {SrcAppJs, DataScript} -> TextAppJs
                        [] p = AssetsCss -> TextMainCss
                        [] OTHER -> TextDataTxt)],
     dirs |-> {<<"/">>, srcDir, SrcDirTs, assetsDir, AssetsDataDir, dataDir}]

InitLayouts ==
    /\ dev \in BOOLEAN
    /\ fsOrder \in {"fwd", "rev"}
    /\ badSrc \in {{}, {SrcAppTs}}
    /\ fs \in {OneOfEachTree, MixedTree}
    /\ pc = "Idle"
    /\ started = <<>>
    /\ completed = <<>>
    /\ buildTask = NoProc
    /\ watching = FALSE
    /\ watchPaths = {}
    /\ handlers = <<>>
    /\ exitCode = "none"
    /\ ioFaults = 0
    /\ call = NoCall
    /\ unlinked = {}

\* A file under a watched root is removed (or renamed away). chokidar reports
\* 'unlink', for which startDevServer subscribes no handler
SourceUnlinked(filePath) ==
    /\ watching
    /\ exitCode = "none"
    /\ Len(handlers) + Cardinality(unlinked) < MaxEvents
    /\ filePath \in DOMAIN fs.files
    /\ \E root \in watchPaths : Under(filePath, root)
    /\ fs' = [fs EXCEPT !.files = [p \in DOMAIN @ \ {filePath} |-> @[p]]]
    /\ unlinked' = unlinked \cup {filePath}
    /\ UNCHANGED <<call, dev, fsOrder, badSrc, pc, started, completed, buildTask,
                   watching, watchPaths, handlers, exitCode, ioFaults>>

NextLayouts ==
    \/ Next
    \/ \E filePath \in DOMAIN fs.files : SourceUnlinked(filePath)

SpecLayouts == InitLayouts /\ [][NextLayouts]_vars

------------------------------------------------------------------------------
\* The watcher with the other events of chokidar: a file is added, a watched
\* root is removed with all it holds. startDevServer subscribes to 'change'
\* and 'ready' alone

\* The files that can be added while the watcher runs
Addable == {SrcNewHtml}

\* A watcher that runs the change handler for 'add' as well
SourceAddedHandled(filePath) ==
    /\ watching
    /\ exitCode = "none"
    /\ Len(handlers) + Cardinality(unlinked) < MaxEvents
    /\ filePath \notin DOMAIN fs.files \cup unlinked
    /\ dirname(filePath) \in fs.dirs
    /\ fs' = writeFile(fs, filePath, Content("raw", TextSubIndexHtml))
    /\ handlers' = Append(handlers, NewHandler(filePath))
    /\ UNCHANGED <<call, unlinked, dev, fsOrder, badSrc, pc, started, completed,
                   buildTask, watching, watchPaths, exitCode, ioFaults>>

\* A file is created under a watched root: chokidar reports 'add', for which
\* no handler is subscribed
SourceAdded(filePath) ==
    /\ watching
    /\ exitCode = "none"
    /\ Len(handlers) + Cardinality(unlinked) < MaxEvents
    /\ filePath \notin DOMAIN fs.files \cup unlinked
    /\ dirname(filePath) \in fs.dirs
    /\ fs' = writeFile(fs, filePath, Content("raw", TextSubIndexHtml))
    /\ UNCHANGED <<call, unlinked, dev, fsOrder, badSrc, pc, started, completed,
                   buildTask, watching, watchPaths, handlers, exitCode, ioFaults>>

\* The data root or the assets root is removed with all it holds: chokidar
\* reports 'unlink' and 'unlinkDir', for which no handler is subscribed
RootRemoved(root) ==
    /\ watching
    /\ exitCode = "none"
    /\ Len(handlers) + Cardinality(unlinked) < MaxEvents
    /\ root \in fs.dirs
    /\ fs' = [files |-> [p \in {q \in DOMAIN fs.files : ~Under(q, root)} |->
                            fs.files[p]],
              dirs |-> {d \in fs.dirs : d # root /\ ~Under(d, root)}]
    /\ unlinked' = unlinked \cup {p \in DOMAIN fs.files : Under(p, root)}
    /\ UNCHANGED <<call, dev, fsOrder, badSrc, pc, started, completed, buildTask,
                   watching, watchPaths, handlers, exitCode, ioFaults>>

\* The tree with one file of each kind, whose three roots all exist
InitEvents == InitLayouts /\ fs = OneOfEachTree

NextEvents ==
    \/ NextLayouts
    \/ \E filePath \in Addable : SourceAdded(filePath)
    \/ \E root \in {dataDir, assetsDir} : RootRemoved(root)

SpecEvents == InitEvents /\ [][NextEvents]_vars

------------------------------------------------------------------------------
\* getFiles taken alone, on trees under the source root

\* A pending call of helper fn
Call(fn, arg) == [fn |-> fn, arg |-> arg, state |-> "pending", value |-> <<>>]

GetFilesDirs == {srcDir, SrcSubDir, SrcDirTs}

GetFilesFiles ==
    {SrcAppTs, SrcUpperTs, SrcAppJs, SrcMainScss, SrcMainCss, SrcSubIndexHtml,
     SrcDirTsFile}

\* The trees made of some of these directories and files, every entry in a
\* directory of the tree
GetFilesTrees ==
    {[files |-> [p \in F |-> Content("raw", <<>>)], dirs |-> D \cup {<<"/">>}] :
        <<F, D>> \in {<<F, D>> \in (SUBSET GetFilesFiles) \X (SUBSET GetFilesDirs) :
                        \A p \in F \cup D : dirname(p) \in D \cup {<<"/">>}}}

InitGetFiles ==
    /\ dev = FALSE
    /\ fsOrder \in {"fwd", "rev"}
    /\ badSrc = {}
    /\ fs \in GetFilesTrees
    /\ pc = "Idle"
    /\ started = <<>>
    /\ completed = <<>>
    /\ buildTask = NoProc
    /\ watching = FALSE
    /\ watchPaths = {}
    /\ handlers = <<>>
    /\ exitCode = "none"
    /\ ioFaults = 0
    /\ unlinked = {}
    /\ call \in {Call("getFiles", <<dir, extension>>) :
                    dir \in {srcDir, SrcSubDir, assetsDir},
                    extension \in {ExtHtml, ExtScss, ExtCss, ExtTs, ExtJs}}

\* getFiles(dir, extension) returns its list
GetFilesReturns ==
    /\ call.fn = "getFiles"
    /\ call.state = "pending"
    /\ ~getFilesThrows(fs, call.arg[1], FALSE)
    /\ call' = [call EXCEPT !.state = "returned",
                            !.value = <<getFiles(fs, call.arg[1], call.arg[2])>>]
    /\ UNCHANGED <<unlinked, dev, fsOrder, badSrc, fs, pc, started, completed, buildTask,
                   watching, watchPaths, handlers, exitCode, ioFaults>>

\* getFiles(dir, extension) throws, fs.readdir failing
GetFilesThrows ==
    /\ call.fn = "getFiles"
    /\ call.state = "pending"
    /\ ioFaults < MaxIOFaults
    /\ getFilesThrows(fs, call.arg[1], TRUE)
    /\ call' = [call EXCEPT !.state = "threw"]
    /\ ioFaults' = ioFaults + 1
    /\ UNCHANGED <<unlinked, dev, fsOrder, badSrc, fs, pc, started, completed, buildTask,
                   watching, watchPaths, handlers, exitCode>>

NextGetFiles == GetFilesReturns \/ GetFilesThrows

SpecGetFiles == InitGetFiles /\ [][NextGetFiles]_vars

------------------------------------------------------------------------------
\* The minification functions taken alone, applied to a text and then to
\* their own result

HtmlChars == {" ", "\n", "<", ">", "a"}
CssChars == {" ", "/", "*", ";", "{", "}", ":", ",", "a"}
JsChars == {" ", "\n", "/", "*", "(", ";", "a"}
CommentChars == {"/", "*"}

\* The texts a function is tried on: those of at most MaxLen characters it
\* treats apart, and for the two that strip comments the texts of at most
\* MaxCommentLen comment delimiters
TextsFor(fn) ==
    CASE fn = "minifyHTML" -> {<<HtmlChars, MaxLen>>}
      [] fn = "minifyCSS" -> {<<CssChars, MaxLen>>, <<CommentChars, MaxCommentLen>>}
      [] fn = "minifyJS" -> {<<JsChars, MaxLen>>, <<CommentChars, MaxCommentLen>>}

InitMinify ==
    /\ dev = FALSE
    /\ fsOrder = "fwd"
    /\ badSrc = {}
    /\ fs = InitialTree(TRUE, TRUE)
    /\ pc = "Idle"
    /\ started = <<>>
    /\ completed = <<>>
    /\ buildTask = NoProc
    /\ watching = FALSE
    /\ watchPaths = {}
    /\ handlers = <<>>
    /\ exitCode = "none"
    /\ ioFaults = 0
    /\ unlinked = {}
    /\ \E fn \in {"minifyHTML", "minifyCSS", "minifyJS"} :
          \E cn \in TextsFor(fn) :
             \E k \in 0..cn[2] :
                \E x \in [1..k -> cn[1]] : call = Call(fn, <<x>>)

\* this[fn](x)
Minify(fn, x) ==
    CASE fn = "minifyHTML" -> minifyHTML(x)
      [] fn = "minifyCSS" -> minifyCSS(x)
      [] fn = "minifyJS" -> minifyJS(x)

\* The function is applied: to the text first, then to what it returned
MinifyReturns ==
    /\ call.fn \in {"minifyHTML", "minifyCSS", "minifyJS"}
    /\ Len(call.value) < 2
    /\ call' = [call EXCEPT
                   !.state = "returned",
                   !.value = Append(@, Minify(call.fn,
                                 IF @ = <<>> THEN call.arg[1] ELSE @[Len(@)]))]
    /\ UNCHANGED <<unlinked, dev, fsOrder, badSrc, fs, pc, started, completed, buildTask,
                   watching, watchPaths, handlers, exitCode, ioFaults>>

NextMinify == MinifyReturns

SpecMinify == InitMinify /\ [][NextMinify]_vars

------------------------------------------------------------------------------
\* The properties checked

Range(s) == {s[i] : i \in DOMAIN s}

Kinds == {"html", "styles", "scripts", "assets", "data"}

\* The handler invocations whose task is between its start and its end
InFlight == {i \in DOMAIN handlers : handlers[i].status = "running"}

\* build() has a task between its start and its end
BuildInFlight == buildTask.status = "running"

\* C1: in a full build the tasks are started in the order markup, stylesheet,
\* script, asset, data, each one only after the one before it has completed,
\* and never while a change handler runs: no two tasks run at once.
C1_BuildRunsTasksInOrder ==
    /\ \E n \in 0..5 :
          started = SubSeq(<<"html", "styles", "scripts", "assets", "data">>, 1, n)
    /\ completed = SubSeq(started, 1, Len(completed))
    /\ Len(started) - Len(completed) \in {0, 1}
    /\ BuildInFlight =>
          /\ Len(started) = Len(completed) + 1
          /\ buildTask.kind = started[Len(started)]
    /\ pc \in {"Idle", "Preparing", "Running"} => handlers = <<>>

\* C1 witness: the fifth task is running after the first four have completed
C1_Witness ==
    /\ pc = "Running"
    /\ completed = <<"html", "styles", "scripts", "assets">>
    /\ buildTask.kind = "data"
    /\ buildTask.stage = "ops"
    /\ buildTask.status = "running"

\* C2: a task that throws in a full build sends the build to Failed with
\* exit status 1 in the very next step, which starts no task and writes
\* nothing; nothing happens after Failed (no later task is started, the
\* failing one is not retried); and with a typed script the compiler rejects,
\* the asset and data tasks are never started and the build never completes.
C2_ThrowFailsBuild ==
    [][/\ pc # "Failed"
       /\ (pc = "Running" /\ buildTask.status = "rejected") =>
             /\ pc' = "Failed"
             /\ exitCode' = "1"
             /\ started' = started
             /\ buildTask' = buildTask
             /\ fs' = fs
       /\ SrcAppTs \in badSrc =>
             /\ Range(started') \cap {"assets", "data"} = {}
             /\ pc' # "Done"
             /\ ~\E p \in DOMAIN fs'.files :
                    \/ Under(p, join(distDir, WordAssets))
                    \/ Under(p, join(distDir, WordData))]_vars

\* C2 witness: the script task has thrown on the rejected typed script and
\* the build has failed
C2_Witness ==
    /\ pc = "Failed"
    /\ exitCode = "1"
    /\ SrcAppTs \in badSrc
    /\ buildTask.kind = "scripts"
    /\ buildTask.status = "rejected"
    /\ ioFaults = 0

\* C3: two change handlers never run tasks of the same kind at once.
C3_SameKindSerialized ==
    \A i, j \in InFlight : i # j => handlers[i].kind # handlers[j].kind

\* C4: at most one task, of build() or of any change handler, is between its
\* start and its completion.
C4_OneTaskAtATime ==
    Cardinality(InFlight) + (IF BuildInFlight THEN 1 ELSE 0) <= 1

\* The files chokidar can report a change of
Watched == {p \in DOMAIN fs.files : \E root \in watchPaths : Under(p, root)}

\* C5: once a change handler has caught a task's error the process has not
\* exited, the watcher is still subscribed, and (while the model delivers
\* events at all) a change of any watched file is still delivered and
\* dispatched; every handler in flight runs the task its path is routed to.
C5_WatchSurvivesTaskError ==
    (\E i \in DOMAIN handlers : handlers[i].status = "caught") =>
        /\ exitCode = "none"
        /\ watching
        /\ pc = "Done"
        /\ Watched # {}
        /\ Len(handlers) < MaxEvents =>
              \A p \in Watched : ENABLED WatchChange(p)
        /\ \A j \in InFlight : handlers[j].kind = Classify(handlers[j].path)

\* C5 witness: a handler has caught an error and a later change event can
\* still be delivered
C5_Witness ==
    /\ handlers # <<>>
    /\ handlers[1].status = "caught"
    /\ Len(handlers) < MaxEvents
    /\ ENABLED WatchChange(SrcIndexHtml)

\* What became of a change event routed to kind k: a handler running that
\* task, or, for no kind, a handler that ended at once and ran nothing
Dispatched(h, k) ==
    IF k = "none"
    THEN h.kind = "none" /\ h.status = "done" /\ h.todo = <<>>
    ELSE h.kind = k /\ h.status = "running"

\* The routing as claim C6 words it: the location tests read the whole path
RoutedByPath(filePath) ==
    LET ext == extname(filePath)
    IN  IF ext = ExtHtml THEN "html"
        ELSE IF ext \in {ExtScss, ExtCss} THEN "styles"
        ELSE IF ext \in {ExtTs, ExtJs} THEN "scripts"
        ELSE IF includes(filePath, WordAssets) THEN "assets"
        ELSE IF includes(filePath, WordData) THEN "data"
        ELSE "none"

\* The routing with the location tests on the directory part of the path
RoutedByDirectory(filePath) ==
    LET ext == extname(filePath)
    IN  IF ext = ExtHtml THEN "html"
        ELSE IF ext \in {ExtScss, ExtCss} THEN "styles"
        ELSE IF ext \in {ExtTs, ExtJs} THEN "scripts"
        ELSE IF includes(dirname(filePath), WordAssets) THEN "assets"
        ELSE IF includes(dirname(filePath), WordData) THEN "data"
        ELSE "none"

\* The handler invocations that still hold the path of their event
WithPath == {i \in DOMAIN handlers : handlers[i].path # <<>>}

\* C6 as stated: every change event invokes exactly the task its path is
\* routed to, where the asset and data tests are "the path contains".
C6_RoutedByWholePath ==
    \A i \in WithPath : Dispatched(handlers[i], RoutedByPath(handlers[i].path))

\* C6 amended: every change event invokes exactly the task its path is routed
\* to, where the asset and data tests are "the directory part of the path
\* contains", and no task when no test matches.
C6_RoutedByDirectoryPart ==
    \A i \in WithPath :
        Dispatched(handlers[i], RoutedByDirectory(handlers[i].path))

\* C6 witness: a change of src/data.txt, whose name but not whose directory
\* contains "data", ran no task, and a change under the data root runs the
\* data task
C6_Witness ==
    /\ Len(handlers) = 2
    /\ handlers[1].path = SrcDataTxt
    /\ handlers[1].kind = "none"
    /\ handlers[1].status = "done"
    /\ handlers[2].path = DataJson
    /\ handlers[2].kind = "data"

\* C7: the watcher is started exactly when the development flag is set and
\* the five tasks of the initial build have completed; without the flag a
\* complete build ends with status 0 and no change event is ever handled;
\* a failed build exits with status 1 and the watcher is never started.
C7_WatcherIffDevAndBuilt ==
    /\ watching <=>
          (dev /\ completed = <<"html", "styles", "scripts", "assets", "data">>)
    /\ watching => pc = "Done" /\ exitCode = "none"
    /\ ~dev => handlers = <<>> /\ watchPaths = {}
    /\ (~dev /\ pc = "Done") => exitCode = "0"
    /\ pc = "Failed" => exitCode = "1" /\ ~watching /\ handlers = <<>>
    /\ ~watching => handlers = <<>>

\* C7 witness: in development mode the build is complete and the watcher
\* handles a change event
C7_Witness ==
    /\ dev
    /\ watching
    /\ pc = "Done"
    /\ InFlight # {}

\* C8: a build that ends without a non-zero exit status has completed all
\* five tasks, each of which ran to its end; every other end of the build is
\* an exit with status 1.
C8_DoneMeansAllFiveCompleted ==
    /\ pc \in {"Idle", "Preparing", "Running", "Done", "Failed"}
    /\ (pc = "Done" \/ exitCode = "0") =>
          /\ completed = <<"html", "styles", "scripts", "assets", "data">>
          /\ started = completed
          /\ ~BuildInFlight
          /\ buildTask.status # "rejected"
    /\ exitCode = "0" => pc = "Done" /\ ~dev
    /\ pc = "Failed" <=> exitCode = "1"
    /\ completed # <<"html", "styles", "scripts", "assets", "data">> =>
          exitCode \in {"none", "1"}

\* C8 witness: a one-shot build has ended with status 0
C8_Witness ==
    /\ ~dev
    /\ pc = "Done"
    /\ exitCode = "0"

\* The output artifacts kind k owns: the markup, stylesheet (with source
\* maps) and script files at the output root, the assets and data subtrees
OwnedBy(k, p) ==
    CASE k = "html" -> dirname(p) = distDir /\ extname(p) = ExtHtml
      [] k = "styles" -> dirname(p) = distDir /\ extname(p) \in {ExtCss, ExtMap}
      [] k = "scripts" -> dirname(p) = distDir /\ extname(p) = ExtJs
      [] k = "assets" -> Under(p, join(distDir, WordAssets))
      [] k = "data" -> Under(p, join(distDir, WordData))

\* The output files of kind k with their contents, and its output directories
OutputsOf(k, f) ==
    [files |-> [p \in {q \in DOMAIN f.files : OwnedBy(k, q)} |-> f.files[p]],
     dirs |-> {d \in f.dirs : OwnedBy(k, d)}]

\* C9: no step of a change handler running the task of kind K, whether the
\* step succeeds or throws, changes an output artifact owned by another kind.
C9_WatchRunTouchesOwnKindOnly ==
    [][\A i \in DOMAIN handlers :
          HandlerStep(i) =>
              \A k \in Kinds \ {handlers[i].kind} :
                  OutputsOf(k, fs') = OutputsOf(k, fs)]_vars

\* C9 witness: a handler started by a change of src/i.html has written the
\* changed markup to the output root and goes on, with outputs of the other
\* kinds in place
C9_Witness ==
    \E i \in InFlight :
        /\ handlers[i].path = SrcIndexHtml
        /\ handlers[i].kind = "html"
        /\ handlers[i].stage = "ops"
        /\ Len(handlers[i].todo) = 1
        /\ join(distDir, basename(SrcIndexHtml)) \in DOMAIN fs.files
        /\ fs.files[join(distDir, basename(SrcIndexHtml))]
              = Content("raw", TextIndexHtml \o <<"!">>)
        /\ \A k \in Kinds \ {"html"} : DOMAIN OutputsOf(k, fs).files # {}

\* C10: the step in which a full build fails changes nothing in the file
\* system, and nothing changes afterwards: what the tasks wrote before the
\* failure stays as written.
C10_FailureLeavesOutputs ==
    [][(pc' = "Failed" \/ pc = "Failed") => fs' = fs]_vars

\* C10 witness: the build has failed in its third task and the outputs of the
\* first two tasks are in the output root
C10_Witness ==
    /\ pc = "Failed"
    /\ completed = <<"html", "styles">>
    /\ buildTask.status = "rejected"
    /\ DOMAIN OutputsOf("html", fs).files # {}
    /\ DOMAIN OutputsOf("styles", fs).files # {}

\* C11: getFiles(dir, extension) on a dir that does not exist returns the
\* empty list and throws nothing, whatever the extension: the call can
\* return, it never throws, and what it returns is empty.
C11_MissingRootGivesEmpty ==
    (call.fn = "getFiles" /\ ~pathExists(fs, call.arg[1])) =>
        /\ call.state # "threw"
        /\ call.state = "pending" => ENABLED GetFilesReturns
        /\ call.state = "returned" => call.value = << <<>> >>

\* C11 witness: getFiles has returned for a subdirectory missing from an
\* existing source root that holds files of the extension asked for
C11_Witness ==
    /\ call.fn = "getFiles"
    /\ call.state = "returned"
    /\ call.arg = <<SrcSubDir, ExtTs>>
    /\ ~pathExists(fs, SrcSubDir)
    /\ SrcAppTs \in DOMAIN fs.files

\* The files at any depth under root whose name ends with the extension
Matching(f, root, extension) ==
    {p \in DOMAIN f.files : Under(p, root) /\ endsWith(basename(p), extension)}

\* C12: for an existing root, getFiles returns each file at any depth under
\* the root whose name ends (case-sensitively) with the extension, exactly
\* once, and nothing else (no directory, no other file).
C12_GetFilesExactlyMatching ==
    (call.fn = "getFiles" /\ call.state = "returned"
        /\ pathExists(fs, call.arg[1])) =>
        /\ Range(call.value[1]) = Matching(fs, call.arg[1], call.arg[2])
        /\ Len(call.value[1]) = Cardinality(Range(call.value[1]))
        /\ Range(call.value[1]) \cap fs.dirs = {}

\* C12 witness: under the source root are a typed script, one in a directory
\* whose own name ends with ".ts", and one whose extension is in upper case;
\* getFiles(src, ".ts") has returned the first two
C12_Witness ==
    /\ call.fn = "getFiles"
    /\ call.state = "returned"
    /\ call.arg = <<srcDir, ExtTs>>
    /\ {SrcAppTs, SrcUpperTs, SrcDirTsFile, SrcAppJs} \subseteq DOMAIN fs.files
    /\ Range(call.value[1]) = {SrcAppTs, SrcDirTsFile}

\* C13: minifyCSS applied to its own result returns that result, for every
\* text.
C13_MinifyCSSIdempotent ==
    (call.fn = "minifyCSS" /\ Len(call.value) = 2) =>
        call.value[2] = call.value[1]

\* C14: minifyJS applied to its own result returns that result, for every
\* text, also when the removal of a comment leaves what is a comment itself.
C14_MinifyJSIdempotent ==
    (call.fn = "minifyJS" /\ Len(call.value) = 2) =>
        call.value[2] = call.value[1]

\* C15: minifyHTML applied to its own result returns that result, for every
\* text.
C15_MinifyHTMLIdempotent ==
    (call.fn = "minifyHTML" /\ Len(call.value) = 2) =>
        call.value[2] = call.value[1]

\* C15 witness: minifyHTML has shortened a text with white space between and
\* inside tags and around a word, and has then been applied to the result
C15_Witness ==
    /\ call.fn = "minifyHTML"
    /\ Len(call.value) = 2
    /\ call.arg[1] = <<">", "\n", "<", " ", "a">>
    /\ call.value[1] = <<">", "<", "a">>

\* C17: what minifyHTML, minifyCSS and minifyJS return is never longer than
\* the text they are given.
C17_MinifiedNotLonger ==
    (call.fn \in {"minifyHTML", "minifyCSS", "minifyJS"}) =>
        /\ Len(call.value) >= 1 => Len(call.value[1]) <= Len(call.arg[1])
        /\ Len(call.value) = 2 => Len(call.value[2]) <= Len(call.value[1])

\* C17 witness: minifyJS has returned a text shorter than the one it was
\* given, a comment and white space removed
C17_Witness ==
    /\ call.fn = "minifyJS"
    /\ call.arg[1] = <<"a", " ", "(", "/", "/">>
    /\ call.value = << <<"a", "(">> >>

\* The task invocations before and after a step: the one of build() and
\* those of the change handlers
Invocations ==
    {<<buildTask, buildTask'>>} \cup
    {<<handlers[i], handlers'[i]>> : i \in DOMAIN handlers}

\* The step performed the next file operation of the invocation, of one of
\* the given kinds, without throwing
Performed(before, after, ops) ==
    /\ before.status = "running"
    /\ before.stage = "ops"
    /\ before.todo # <<>>
    /\ Head(before.todo).op \in ops
    /\ after # before
    /\ after \in {Continue(before, Tail(before.todo)),
                   Settle(Continue(before, Tail(before.todo)))}

\* C16: whenever a task writes the output of a markup file, a plain
\* stylesheet or a plain script, in a full build or for a change event, the
\* content written is the source's content in development mode, and exactly
\* minifyHTML, minifyCSS or minifyJS of it otherwise.
C16_PassThroughOrMinified ==
    [][\A inv \in Invocations :
          Performed(inv[1], inv[2], {"html", "css", "js"}) =>
              LET o == Head(inv[1].todo)
                  source == fs.files[o.src]
              IN  /\ o.dst \in DOMAIN fs'.files
                  /\ dev => fs'.files[o.dst] = source
                  /\ ~dev =>
                        fs'.files[o.dst].text =
                            CASE o.op = "html" -> minifyHTML(source.text)
                              [] o.op = "css" -> minifyCSS(source.text)
                              [] o.op = "js" -> minifyJS(source.text)]_vars

\* C16 witness: a production build has written the plain stylesheet and the
\* plain script minified, each shorter than its source
C16_Witness ==
    /\ ~dev
    /\ pc = "Done"
    /\ fs.files[join(distDir, basename(SrcMainCss))]
          = Content("raw", <<"a", " ", "{", "c", "}">>)
    /\ fs.files[join(distDir, basename(SrcAppJs))]
          = Content("raw", <<"f", "(", ")", ";">>)
    /\ fs.files[SrcMainCss] = Content("raw", TextMainCss)
    /\ fs.files[SrcAppJs] = Content("raw", TextAppJs)

\* The step is one of a running invocation of the task of kind k
StepOf(before, after, k) ==
    /\ before.kind = k
    /\ before.status = "running"
    /\ after # before

\* The invocation has thrown: build() or the change handler has caught it
Threw(after) == after.status \in {"rejected", "caught"}

\* The invocation has returned
Returned(after) == after.status \in {"resolved", "done"}

\* The files and directories of f under root, the files with their contents
TreeUnder(f, root) ==
    [files |-> [p \in {q \in DOMAIN f.files : Under(q, root)} |-> f.files[p]],
     dirs |-> {d \in f.dirs : d = root \/ Under(d, root)}]

\* C18: when the asset task starts with the assets root missing, it creates
\* the root with exactly one file under it, the placeholder image, and goes
\* on to mirror the root; when the root exists it adds nothing under it;
\* the task throws only on an I/O error, and when it completes the output
\* assets directory holds a file.
C18_PlaceholderIffAssetsMissing ==
    [][\A inv \in Invocations :
          StepOf(inv[1], inv[2], "assets") =>
              LET images == join(assetsDir, WordImages)
                  placeholder == join(images, ProfileJpg)
                  output == join(distDir, WordAssets)
              IN  /\ Threw(inv[2]) => ioFaults' = ioFaults + 1
                  /\ (inv[1].stage = "scan" /\ ~Threw(inv[2])) =>
                        IF ~pathExists(fs, assetsDir)
                        THEN /\ TreeUnder(fs', assetsDir) =
                                  [files |-> [p \in {placeholder} |->
                                                Content("raw", PlaceholderSVG)],
                                   dirs |-> {assetsDir, images}]
                             /\ inv[2].status = "running"
                             /\ Op("copy", placeholder,
                                   join(join(output, WordImages), ProfileJpg))
                                    \in Range(inv[2].todo)
                        ELSE TreeUnder(fs', assetsDir) = TreeUnder(fs, assetsDir)
                  /\ Returned(inv[2]) =>
                        DOMAIN TreeUnder(fs', output).files # {}]_vars

\* C18 witness: on a tree without assets root the asset task has completed;
\* the placeholder image is the one file under the new root and its copy is
\* in the output assets directory
C18_Witness ==
    /\ "assets" \in Range(completed)
    /\ DOMAIN TreeUnder(fs, assetsDir).files
          = {join(join(assetsDir, WordImages), ProfileJpg)}
    /\ DOMAIN TreeUnder(fs, join(distDir, WordAssets)).files
          = {join(join(join(distDir, WordAssets), WordImages), ProfileJpg)}
    /\ fs.files[join(join(join(distDir, WordAssets), WordImages), ProfileJpg)]
          = Content("raw", PlaceholderSVG)

\* C19: when the data root is missing, the one step of the data task is its
\* return: it throws nothing, no I/O error can make it throw, and it writes
\* nothing; a full build that reaches the data task then never fails, and
\* completes (Done, and exit status 0 without the development flag) as its
\* next step.
C19_MissingDataSkipped ==
    /\ (BuildInFlight /\ buildTask.kind = "data" /\ ~pathExists(fs, dataDir)) =>
          /\ ENABLED BuildTaskStep
          /\ Outcomes(buildTask, fs) =
                {Outcome([buildTask EXCEPT !.status = "resolved", !.stage = "ops"],
                         fs, 0)}
    /\ (pc = "Running" /\ buildTask.kind = "data" /\ ~pathExists(fs, dataDir)) =>
          /\ buildTask.status \in {"running", "resolved"}
          /\ buildTask.status = "resolved" => ENABLED BuildFinish
    /\ (pc \in {"Done", "Failed"} /\ ~pathExists(fs, dataDir)) =>
          /\ DOMAIN TreeUnder(fs, join(distDir, WordData)).files = {}
          /\ ~(pc = "Failed" /\ Len(completed) = 4)
          /\ (pc = "Done" /\ ~dev) => exitCode = "0"

\* C19 witness: a one-shot build of a tree without data root has completed
\* with status 0, the output data directory empty
C19_Witness ==
    /\ ~pathExists(fs, dataDir)
    /\ pc = "Done"
    /\ ~dev
    /\ exitCode = "0"
    /\ completed[5] = "data"
    /\ DOMAIN TreeUnder(fs, join(distDir, WordData)).files = {}

\* The path under out with the place p has under root
Rebase(p, root, out) == out \o SubSeq(p, Len(root) + 1, Len(p))

\* out holds, at the same relative path, every file under root with the same
\* content and every directory under root
Mirrors(f, root, out) ==
    /\ \A p \in DOMAIN TreeUnder(f, root).files :
          /\ Rebase(p, root, out) \in DOMAIN f.files
          /\ f.files[Rebase(p, root, out)] = f.files[p]
    /\ \A d \in TreeUnder(f, root).dirs : Rebase(d, root, out) \in f.dirs

\* The root a mirroring task reads and the output directory it writes
MirrorRoot(k) == IF k = "assets" THEN assetsDir ELSE dataDir

MirrorOutput(k) ==
    IF k = "assets" THEN join(distDir, WordAssets) ELSE join(distDir, WordData)

\* C20 as stated: whenever the asset task (the data task) returns, the output
\* assets (data) directory holds every file under the assets (data) root at
\* the same relative path with the same content, and every directory under
\* the root.
C20_MirrorWheneverTaskReturns ==
    [][\A k \in {"assets", "data"} :
          \A inv \in Invocations :
              (StepOf(inv[1], inv[2], k) /\ Returned(inv[2])) =>
                  Mirrors(fs', MirrorRoot(k), MirrorOutput(k))]_vars

\* C20 amended: when the asset task (the data task) returns, in a full build
\* or for the latest change event (so that no file has been modified since
\* the task started), the output assets (data) directory holds every file
\* under the assets (data) root at the same relative path with the same
\* content, and every directory under the root, empty ones included.
C20_MirrorComplete ==
    [][\A k \in {"assets", "data"} :
          /\ (StepOf(buildTask, buildTask', k) /\ Returned(buildTask')) =>
                Mirrors(fs', MirrorRoot(k), MirrorOutput(k))
          /\ \A i \in DOMAIN handlers :
                (/\ i = Len(handlers')
                 /\ StepOf(handlers[i], handlers'[i], k)
                 /\ Returned(handlers'[i])) =>
                    Mirrors(fs', MirrorRoot(k), MirrorOutput(k))]_vars

\* C20 witness: the build has mirrored an assets root with a file and an
\* empty directory and a data root with a file, and a change of the asset
\* has been mirrored again by the handler of the event
C20_Witness ==
    /\ pc = "Done"
    /\ Len(handlers) = 1
    /\ handlers[1].status = "done"
    /\ AssetsPng \in DOMAIN fs.files
    /\ fs.files[AssetsPng] = Content("raw", TextPng \o <<"!">>)
    /\ fs.files[Rebase(AssetsPng, assetsDir, join(distDir, WordAssets))]
          = fs.files[AssetsPng]
    /\ Rebase(AssetsEmptyDir, assetsDir, join(distDir, WordAssets)) \in fs.dirs
    /\ fs.files[Rebase(DataJson, dataDir, join(distDir, WordData))]
          = Content("raw", TextJson)

\* The input files the run started from: those still there and those removed
Sources == {p \in DOMAIN fs.files : ~Under(p, distDir)} \cup unlinked

\* The files of the output tree
Artifacts == DOMAIN TreeUnder(fs, distDir).files

\* C21: on the tree with one markup file, one preprocessed stylesheet, one
\* typed script, one asset and one data file, and an output tree empty at the
\* start, a complete build leaves exactly five files in the output tree
\* without the development flag, and these five and the stylesheet's
\* source map with it; without the flag no source map is ever written.
C21_FiveArtifactsPlusMap ==
    /\ (Sources = DOMAIN OneOfEachTree.files /\ pc = "Done") =>
          Artifacts =
              { distDir \o <<"/", "i", ".", "h", "t", "m", "l">>,
                distDir \o <<"/", "m", ".", "c", "s", "s">>,
                distDir \o <<"/", "a", ".", "j", "s">>,
                distDir \o <<"/", "a", "s", "s", "e", "t", "s", "/", "p", ".", "p", "n", "g">>,
                distDir \o <<"/", "d", "a", "t", "a", "/", "c", "v", ".", "j", "s", "o", "n">> }
              \cup (IF dev
                    THEN {distDir \o <<"/", "m", ".", "c", "s", "s", ".", "m", "a", "p">>}
                    ELSE {})
    /\ ~dev => \A p \in DOMAIN fs.files : extname(p) # ExtMap

\* C21 witness: a build in development mode of the one-of-each tree is
\* complete, with six files in the output tree
C21_Witness ==
    /\ Sources = DOMAIN OneOfEachTree.files
    /\ dev
    /\ pc = "Done"
    /\ handlers = <<>>
    /\ Cardinality(Artifacts) = 6

\* The last of the files that has base name b
LastNamed(files, b) ==
    files[CHOOSE i \in DOMAIN files :
             /\ basename(files[i]) = b
             /\ \A j \in DOMAIN files : j > i => basename(files[j]) # b]

\* The task of kind k returns in this step, in the full build or for the
\* latest event (no source has changed since the task started)
ReturnsSettled(k) ==
    \/ StepOf(buildTask, buildTask', k) /\ Returned(buildTask')
    \/ \E i \in DOMAIN handlers :
          /\ i = Len(handlers')
          /\ unlinked = {}
          /\ StepOf(handlers[i], handlers'[i], k)
          /\ Returned(handlers'[i])

\* C22: when the markup task returns, the markup files of the output tree
\* are exactly the base names of the markup files found under the source
\* root, all directly in the output root; the output of a base name that
\* two sources share holds the content of the one processed last; and the
\* task throws on an I/O error only.
C22_MarkupFlatLastWins ==
    [][/\ ReturnsSettled("html") =>
             LET htmlFiles == getFiles(fs', srcDir, ExtHtml)
             IN  /\ {p \in Artifacts' : endsWith(p, ExtHtml)} =
                        {distDir \o <<"/">> \o basename(file) :
                            file \in Range(htmlFiles)}
                 /\ \A file \in Range(htmlFiles) :
                        fs'.files[distDir \o <<"/">> \o basename(file)].text =
                            LET content ==
                                  fs'.files[LastNamed(htmlFiles, basename(file))].text
                            IN  IF dev THEN content ELSE minifyHTML(content)
       /\ \A inv \in Invocations :
             (StepOf(inv[1], inv[2], "html") /\ Threw(inv[2])) =>
                 ioFaults' = ioFaults + 1]_vars

\* C22 witness: src/i.html and src/s/i.html have been processed in this
\* order, and the one markup output, i.html, holds the content of the second
C22_Witness ==
    /\ fsOrder = "fwd"
    /\ dev
    /\ completed # <<>>
    /\ {SrcIndexHtml, SrcSubIndexHtml} \subseteq DOMAIN fs.files
    /\ {p \in Artifacts : endsWith(p, ExtHtml)}
          = {distDir \o <<"/", "i", ".", "h", "t", "m", "l">>}
    /\ fs.files[distDir \o <<"/", "i", ".", "h", "t", "m", "l">>].text
          = TextSubIndexHtml
    /\ TextSubIndexHtml # TextIndexHtml

\* C23: when watch mode starts, the roots handed to the watcher are exactly
\* those of the source, data and assets roots that exist at that moment.
C23_WatchesExistingRootsOnly ==
    [][(~watching /\ watching') =>
          watchPaths' = {p \in {srcDir, dataDir, assetsDir} :
                            pathExists(fs', p)}]_vars

\* The next operation of the invocation compiles a typed script that the
\* compiler rejects
AtRejectedTs(p) ==
    /\ p.kind = "scripts"
    /\ p.stage = "ops"
    /\ p.todo # <<>>
    /\ Head(p.todo).op = "ts"
    /\ Head(p.todo).src \in badSrc

\* C24: when the compiler rejects a typed script, the script task throws at
\* that step, in a full build or for a change event, and writes nothing; the
\* invocation does nothing after it, so that, in a full build, none of the
\* typed and plain scripts that were still to do has an output, and the
\* build can only go on to fail.
C24_CompilerFailureRethrown ==
    [][/\ \A inv \in Invocations :
             (StepOf(inv[1], inv[2], "scripts") /\ AtRejectedTs(inv[1])) =>
                 /\ Threw(inv[2])
                 /\ fs' = fs
       /\ \A inv \in Invocations :
             Threw(inv[1]) => inv[2] = inv[1]
       /\ (buildTask.status = "rejected" /\ AtRejectedTs(buildTask)) =>
             /\ pc \in {"Running", "Failed"}
             /\ pc' \in {pc, "Failed"}
             /\ \A k \in DOMAIN buildTask.todo :
                   buildTask.todo[k].dst \notin Artifacts']_vars

\* C24 witness: the build has failed on the first of two typed scripts; the
\* second typed script and the plain script are still to do and the output
\* root holds no script
C24_Witness ==
    /\ pc = "Failed"
    /\ buildTask.status = "rejected"
    /\ AtRejectedTs(buildTask)
    /\ ioFaults = 0
    /\ [k \in DOMAIN buildTask.todo |-> buildTask.todo[k].src]
          = <<SrcAppTs, SrcDirTsFile, SrcAppJs>>
    /\ {p \in Artifacts : endsWith(p, ExtJs)} = {}

\* The three directories build() creates first
OutputDirs == {distDir, join(distDir, WordData), join(distDir, WordAssets)}

\* C25: in a full build, once a task has been started the output root and
\* its data and assets subdirectories exist; every file operation a task of
\* the build comes to finds the directory it writes into; and when creating
\* the directories fails the build fails with no task started.
C25_OutputDirsBeforeTasks ==
    [][/\ started' # <<>> => OutputDirs \subseteq fs'.dirs
       /\ (/\ buildTask'.status = "running"
           /\ buildTask'.stage = "ops"
           /\ Head(buildTask'.todo).op # "mkdir") =>
              dirname(Head(buildTask'.todo).dst) \in fs'.dirs
       /\ (pc = "Preparing" /\ pc' = "Failed") =>
              /\ started' = <<>>
              /\ buildTask' = NoProc
              /\ fs' = fs]_vars

\* C25 witness: the first task of a build is about to write its first output
\* into the output root, which exists and is still empty
C25_Witness ==
    /\ started = <<"html">>
    /\ buildTask.status = "running"
    /\ buildTask.stage = "ops"
    /\ Head(buildTask.todo).dst = join(distDir, basename(SrcIndexHtml))
    /\ OutputDirs \subseteq fs.dirs
    /\ Artifacts = {}

\* C26: a one-shot build eventually reaches Done or Failed, and every task
\* it starts goes on until it has returned or thrown.
C26_OneShotTerminates ==
    /\ <>(pc \in {"Done", "Failed"})
    /\ \A k \in Kinds :
          (buildTask.kind = k /\ buildTask.status = "running")
              ~> (buildTask.kind = k
                     /\ buildTask.status \in {"resolved", "rejected"})

\* C26 witness: a one-shot build has run its five tasks to the end and the
\* process has ended with status 0
C26_Witness ==
    /\ ~dev
    /\ pc = "Done"
    /\ started = TaskOrder
    /\ completed = TaskOrder
    /\ buildTask = NoProc
    /\ exitCode = "0"
    /\ ~watching

\* The tree without the files of the output root
WithoutArtifacts(f) ==
    [f EXCEPT !.files = [p \in {q \in DOMAIN @ : ~Under(q, distDir)} |-> @[p]]]

\* The tree after the operations of todo, in order
RECURSIVE ApplyOps(_, _)
ApplyOps(f, todo) ==
    IF todo = <<>> THEN f
    ELSE ApplyOps(ExecOp(f, Head(todo)), Tail(todo))

\* The tree after a whole run of the task of kind k on f
Rebuilt(k, f) == ApplyOps(RunTask(k, f).fs, RunTask(k, f).todo)

\* The source files the task of kind k is about
KindSources(k, f) ==
    CASE k = "html" -> Matching(f, srcDir, ExtHtml)
      [] k = "styles" ->
            Matching(f, srcDir, ExtScss) \cup Matching(f, srcDir, ExtCss)
      [] k = "scripts" ->
            Matching(f, srcDir, ExtTs) \cup Matching(f, srcDir, ExtJs)

KindOfExtension(ext) ==
    CASE ext = ExtHtml -> "html"
      [] ext \in {ExtScss, ExtCss} -> "styles"
      [] ext \in {ExtTs, ExtJs} -> "scripts"
      [] OTHER -> "none"

\* C28: a change event for a path with extension .html, .scss, .css, .ts or
\* .js runs the markup, stylesheet or script task wherever the path lies,
\* also under the assets or data root; that task reads files under the
\* source root only and no step of it changes the mirrored assets or data,
\* so the changed file is not mirrored again; and an event for a path with
\* none of these extensions whose directory contains both "assets" and
\* "data" runs the asset task.
C28_ExtensionBeforeLocation ==
    [][/\ \A i \in DOMAIN handlers' :
             LET h == handlers'[i]
                 byExt == KindOfExtension(extname(h.path))
             IN  (h.path # <<>> /\ h.status = "running") =>
                    /\ byExt # "none" =>
                          /\ h.kind = byExt
                          /\ \A n \in DOMAIN h.todo : Under(h.todo[n].src, srcDir)
                    /\ (/\ byExt = "none"
                        /\ includes(dirname(h.path), WordAssets)
                        /\ includes(dirname(h.path), WordData)) =>
                           h.kind = "assets"
       /\ \A i \in DOMAIN handlers :
             (\E k \in {"html", "styles", "scripts"} :
                  StepOf(handlers[i], handlers'[i], k)) =>
                 /\ OutputsOf("assets", fs') = OutputsOf("assets", fs)
                 /\ OutputsOf("data", fs') = OutputsOf("data", fs)]_vars

\* C28 witness: assets/t.css was edited and the task run for the event has
\* returned; the mirrored copy still holds the text from before the edit
C28_Witness ==
    /\ Len(handlers) = 1
    /\ handlers[1].status = "done"
    /\ AssetsCss \in DOMAIN fs.files
    /\ fs.files[AssetsCss].text = TextMainCss \o <<"!">>
    /\ fs.files[join(join(distDir, WordAssets), basename(AssetsCss))].text
          = TextMainCss

\* In todo no operation of kind first comes after one of kind second
InTwoPasses(todo, first, second) ==
    \A m, n \in DOMAIN todo :
        (todo[m].op = second /\ todo[n].op = first) => n < m

\* C29: the stylesheet task has every preprocessed stylesheet before every
\* plain one, and the script task every typed script before every plain one;
\* so when the task returns, the output that name.scss and name.css (name.ts
\* and name.js) share holds the processed content of the plain file.
C29_PlainOverwritesCompiled ==
    [][\A inv \in Invocations :
          /\ inv[2].kind = "styles" => InTwoPasses(inv[2].todo, "scss", "css")
          /\ inv[2].kind = "scripts" => InTwoPasses(inv[2].todo, "ts", "js")
          /\ (StepOf(inv[1], inv[2], "styles") /\ Returned(inv[2])) =>
                \A s \in Matching(fs', srcDir, ExtScss),
                   c \in Matching(fs', srcDir, ExtCss) :
                    ScssOutputPath(s) = CssOutputPath(c) =>
                        fs'.files[CssOutputPath(c)] =
                            Content("raw",
                                processedContent("css", fs'.files[c].text))
          /\ (StepOf(inv[1], inv[2], "scripts") /\ Returned(inv[2])) =>
                \A s \in Matching(fs', srcDir, ExtTs),
                   c \in Matching(fs', srcDir, ExtJs) :
                    TsOutputPath(s) = JsOutputPath(c) =>
                        fs'.files[JsOutputPath(c)] =
                            Content("raw",
                                processedContent("js", fs'.files[c].text))]_vars

\* C29 witness: a development build has run the stylesheet and script tasks
\* on src/m.scss, src/m.css, src/a.ts and src/a.js; the source map of m.scss
\* was written, and m.css and a.js hold the contents of the plain files
C29_Witness ==
    /\ dev
    /\ {"styles", "scripts"} \subseteq Range(completed)
    /\ handlers = <<>>
    /\ {SrcMainScss, SrcMainCss, SrcAppTs, SrcAppJs} \subseteq DOMAIN fs.files
    /\ ScssOutputPath(SrcMainScss) = CssOutputPath(SrcMainCss)
    /\ TsOutputPath(SrcAppTs) = JsOutputPath(SrcAppJs)
    /\ (ScssOutputPath(SrcMainScss) \o ExtMap) \in DOMAIN fs.files
    /\ fs.files[CssOutputPath(SrcMainCss)] = fs.files[SrcMainCss]
    /\ fs.files[JsOutputPath(SrcAppJs)] = fs.files[SrcAppJs]

\* The output files written for the source file s
OutputsOfSource(s) ==
    IF Under(s, srcDir)
    THEN CASE endsWith(basename(s), ExtHtml) -> {HtmlOutputPath(s)}
           [] endsWith(basename(s), ExtScss) ->
                 {ScssOutputPath(s), ScssOutputPath(s) \o ExtMap}
           [] endsWith(basename(s), ExtCss) -> {CssOutputPath(s)}
           [] endsWith(basename(s), ExtTs) -> {TsOutputPath(s)}
           [] endsWith(basename(s), ExtJs) -> {JsOutputPath(s)}
           [] OTHER -> {}
    ELSE IF Under(s, assetsDir)
    THEN {Rebase(s, assetsDir, join(distDir, WordAssets))}
    ELSE IF Under(s, dataDir)
    THEN {Rebase(s, dataDir, join(distDir, WordData))}
    ELSE {}

\* The output files that no source file present stands behind
Orphans(f) ==
    {q \in DOMAIN f.files :
        /\ Under(q, distDir)
        /\ \A s \in DOMAIN f.files : q \notin OutputsOfSource(s)}

\* C30: no step of a build, of a watch run or of the removal of a source
\* takes a file or a directory out of the output tree, and an output whose
\* sources have all been removed keeps its content.
C30_OutputsOnlyGrow ==
    [][/\ Artifacts \subseteq Artifacts'
       /\ {d \in fs.dirs : d = distDir \/ Under(d, distDir)} \subseteq fs'.dirs
       /\ \A q \in Orphans(fs) : fs'.files[q] = fs.files[q]]_vars

\* C30 witness: assets/t.css has been removed and a change of assets/data/f
\* has run the asset task, which mirrored the edited file; the mirrored copy
\* of assets/t.css is still in the output tree with its content
C30_Witness ==
    /\ AssetsCss \in unlinked
    /\ Len(handlers) = 1
    /\ handlers[1].status = "done"
    /\ AssetsDataFile \in DOMAIN fs.files
    /\ fs.files[AssetsDataFile].text = TextDataTxt \o <<"!">>
    /\ fs.files[Rebase(AssetsDataFile, assetsDir, join(distDir, WordAssets))]
          = fs.files[AssetsDataFile]
    /\ Rebase(AssetsCss, assetsDir, join(distDir, WordAssets)) \in Orphans(fs)
    /\ fs.files[Rebase(AssetsCss, assetsDir, join(distDir, WordAssets))].text
          = TextMainCss

\* The step is one of a running task, in the full build or in a handler
TaskStep == \E inv \in Invocations : \E k \in Kinds : StepOf(inv[1], inv[2], k)

\* C31: no step of a task changes a file or a directory of the source root
\* or of the data root; a step of a task that changes the assets root is the
\* first step of the asset task, taken when the assets root does not exist.
C31_InputTreesReadOnly ==
    [][TaskStep =>
          /\ TreeUnder(fs', srcDir) = TreeUnder(fs, srcDir)
          /\ TreeUnder(fs', dataDir) = TreeUnder(fs, dataDir)
          /\ TreeUnder(fs', assetsDir) # TreeUnder(fs, assetsDir) =>
                /\ ~pathExists(fs, assetsDir)
                /\ \E inv \in Invocations :
                      /\ StepOf(inv[1], inv[2], "assets")
                      /\ inv[1].stage = "scan"]_vars

\* C31 witness: a build that found no assets root and no data root is done;
\* the assets root holds the placeholder image, the source root holds what it
\* held at the start and there is still no data root
C31_Witness ==
    /\ pc = "Done"
    /\ handlers = <<>>
    /\ join(join(assetsDir, WordImages), ProfileJpg) \in DOMAIN fs.files
    /\ TreeUnder(fs, srcDir) = TreeUnder(InitialTree(FALSE, FALSE), srcDir)
    /\ ~pathExists(fs, dataDir)
    /\ Artifacts # {}

\* The step adds a file to a watched root or removes one, or a whole root
AddOrRemove ==
    \/ \E filePath \in Addable : SourceAdded(filePath)
    \/ \E filePath \in DOMAIN fs.files : SourceUnlinked(filePath)
    \/ \E root \in {dataDir, assetsDir} : RootRemoved(root)

\* C32: a step that adds a file to a watched root or removes one starts no
\* handler and no task and leaves the output tree as it is; a handler is
\* started by a change event alone, and the output tree changes only in a
\* step of a task or when build() creates the output directories.
C32_OnlyChangeEventsTrigger ==
    [][/\ AddOrRemove =>
             /\ handlers' = handlers
             /\ buildTask' = buildTask
             /\ TreeUnder(fs', distDir) = TreeUnder(fs, distDir)
       /\ Len(handlers') > Len(handlers) =>
             \E filePath \in DOMAIN fs.files : WatchChange(filePath)
       /\ TreeUnder(fs', distDir) # TreeUnder(fs, distDir) =>
             TaskStep \/ pc = "Preparing"]_vars

\* C32 witness: while the watcher runs, src/n.html has been added and another
\* file removed; no handler has been started, there is no output for
\* src/n.html and the output of the removed file is still there
C32_Witness ==
    /\ watching
    /\ handlers = <<>>
    /\ SrcNewHtml \in DOMAIN fs.files
    /\ HtmlOutputPath(SrcNewHtml) \notin Artifacts
    /\ SrcIndexHtml \in unlinked
    /\ HtmlOutputPath(SrcIndexHtml) \in Artifacts

\* C33: in watch mode, the data task run for a change event that finds the
\* data root gone returns at its first step, throwing nothing and writing
\* nothing; the asset task run for a change event that finds the assets root
\* gone creates the root with the placeholder image alone and goes on to
\* mirror it.
C33_WatchMissingRoots ==
    [][\A i \in DOMAIN handlers :
          LET before == handlers[i]
              after == handlers'[i]
              images == join(assetsDir, WordImages)
              placeholder == join(images, ProfileJpg)
          IN  /\ (/\ StepOf(before, after, "data")
                  /\ before.stage = "scan"
                  /\ ~pathExists(fs, dataDir)) =>
                     /\ after = Ended("done")
                     /\ fs' = fs
                     /\ ioFaults' = ioFaults
              /\ (/\ StepOf(before, after, "assets")
                  /\ before.stage = "scan"
                  /\ ~pathExists(fs, assetsDir)
                  /\ ~Threw(after)) =>
                     /\ TreeUnder(fs', assetsDir) =
                           [files |-> [p \in {placeholder} |->
                                          Content("raw", PlaceholderSVG)],
                            dirs |-> {assetsDir, images}]
                     /\ after.status = "running"
                     /\ \E n \in DOMAIN after.todo :
                           after.todo[n] =
                               Op("copy", placeholder,
                                  Rebase(placeholder, assetsDir,
                                         join(distDir, WordAssets)))]_vars

\* C33 witness: data/cv.json was edited and the data root then removed; no
\* other file was edited; the handler of the event has ended normally and
\* the mirrored cv.json still holds the text from before the edit
C33_Witness ==
    /\ Len(handlers) = 1
    /\ handlers[1] = Ended("done")
    /\ unlinked = {DataJson}
    /\ ~pathExists(fs, dataDir)
    /\ \A p \in DOMAIN OneOfEachTree.files \ {DataJson} :
          p \in DOMAIN fs.files /\ fs.files[p] = OneOfEachTree.files[p]
    /\ fs.files[Rebase(DataJson, dataDir, join(distDir, WordData))]
          = OneOfEachTree.files[DataJson]

====
